---- MODULE Spec2Model ----
(***************************************************************************)
(* Folder monitor with ntfy.sh notifications (src/folder_monitor.py).      *)
(*                                                                         *)
(* The main thread validates the path, constructs FileChangeHandler (whose *)
(* constructor POSTs "Folder Monitoring Started"), starts the watchdog     *)
(* observer, idles until KeyboardInterrupt, POSTs "Monitoring Stopped",    *)
(* stops and joins the observer.  The observer thread invokes on_created / *)
(* on_modified / on_deleted / on_moved, one event at a time.               *)
(*                                                                         *)
(* Paths and extensions are sequences of one-character strings, so that    *)
(* os.path.splitext, os.path.basename, str.rsplit, str.lower, str.split    *)
(* and str.strip are computed character by character.  Python's None and   *)
(* the empty string / empty list are both falsy and the code only tests    *)
(* truthiness, so an absent optional string is "" and an absent list <<>>. *)
(* A priority argument is [int |-> n], [str |-> s] or [none |-> TRUE].     *)
(***************************************************************************)
EXTENDS Integers, Sequences, FiniteSets, TLC

VARIABLES
    pc,          \* position of the main thread in main()
    exitCode,    \* exit status when pc = "exited" (-2: ended by SIGINT)
    args,        \* parsed command line (argparse result)
    handler,     \* the FileChangeHandler object (made = FALSE before construction)
    obsThread,   \* observer thread: unstarted, idle, posting, terminated,
                 \* crashed (an exception left a callback), killed (process ended)
    stopRequested, \* observer.stop() has been called
    pending,     \* arguments of the send_notification call the observer thread is in
    lastEvent,   \* the event most recently delivered to the handler
    lastPost,    \* the most recent requests.post: who made it and its JSON payload
    posts,       \* history: every requests.post so far (caller, topic, event index)
    events,      \* history: per delivered event, the filter's decision, whether a
                 \* failure was met, and whether the callback has returned
    lifecycle,   \* history: the lifecycle steps main() has taken, in order
    log          \* logger records the most recent step emitted, under
                 \* logging.basicConfig(level=logging.INFO)

vars == <<pc, exitCode, args, handler, obsThread, stopRequested, pending,
          lastEvent, lastPost, posts, events, lifecycle, log>>

(***************************************************************************)
(* Bounds                                                                  *)
(***************************************************************************)
\* number of filesystem events the watch facility delivers in one run
MaxEvents == 2
\* longest path of the exhaustive path sets of the handler-level specification
MaxPathLen == 3

(***************************************************************************)
(* Character-level string functions of the Python library                  *)
(***************************************************************************)
UpperChars == <<"A","B","C","D","E","F","G","H","I","J","K","L","M",
                "N","O","P","Q","R","S","T","U","V","W","X","Y","Z">>
LowerChars == <<"a","b","c","d","e","f","g","h","i","j","k","l","m",
                "n","o","p","q","r","s","t","u","v","w","x","y","z">>

\* str.lower() on one character
LowerChar(c) ==
    IF \E i \in 1..Len(UpperChars) : UpperChars[i] = c
    THEN LowerChars[CHOOSE i \in 1..Len(UpperChars) : UpperChars[i] = c]
    ELSE c

\* str.lower()
Lower(s) == [i \in 1..Len(s) |-> LowerChar(s[i])]

\* str.rfind(c), 1-based; 0 when c does not occur (Python's -1)
RFind(s, c) ==
    IF \E i \in 1..Len(s) : s[i] = c
    THEN CHOOSE i \in 1..Len(s) : s[i] = c /\ \A j \in (i+1)..Len(s) : s[j] # c
    ELSE 0

\* the f-string rendering of a character sequence
RECURSIVE Join(_)
Join(s) == IF s = <<>> THEN "" ELSE Head(s) \o Join(Tail(s))

\* os.path.basename(p): p[p.rfind('/')+1:]
Basename(p) == SubSeq(p, RFind(p, "/") + 1, Len(p))

\* the while loop of genericpath._splitext: skip the leading dots of the
\* base name; the extension starts at dotIndex only if a non-dot precedes it
RECURSIVE SplitextScan(_, _, _)
SplitextScan(p, filenameIndex, dotIndex) ==
    IF filenameIndex < dotIndex
    THEN IF p[filenameIndex] # "."
         THEN SubSeq(p, dotIndex, Len(p))
         ELSE SplitextScan(p, filenameIndex + 1, dotIndex)
    ELSE <<>>

\* os.path.splitext(p)[1]
SplitextExt(p) ==
    LET sepIndex == RFind(p, "/")
        dotIndex == RFind(p, ".")
    IN  IF dotIndex > sepIndex
        THEN SplitextScan(p, sepIndex + 1, dotIndex)
        ELSE <<>>

\* p.rsplit('/', 1)[0]
RsplitHead(p) ==
    IF RFind(p, "/") = 0 THEN p ELSE SubSeq(p, 1, RFind(p, "/") - 1)

\* str.split(',')
RECURSIVE SplitComma(_, _)
SplitComma(s, cur) ==
    IF s = <<>> THEN <<cur>>
    ELSE IF Head(s) = "," THEN <<cur>> \o SplitComma(Tail(s), <<>>)
    ELSE SplitComma(Tail(s), Append(cur, Head(s)))

\* str.strip() (whitespace is the blank)
RECURSIVE LStrip(_)
LStrip(s) == IF s # <<>> /\ Head(s) = " " THEN LStrip(Tail(s)) ELSE s
RECURSIVE RStrip(_)
RStrip(s) ==
    IF s # <<>> /\ s[Len(s)] = " " THEN RStrip(SubSeq(s, 1, Len(s) - 1)) ELSE s
Strip(s) == RStrip(LStrip(s))

\* str.rstrip('/')
RECURSIVE RStripSlash(_)
RStripSlash(s) ==
    IF s # <<>> /\ s[Len(s)] = "/" THEN RStripSlash(SubSeq(s, 1, Len(s) - 1)) ELSE s

(***************************************************************************)
(* main(): normalisation of --extensions                                   *)
(***************************************************************************)
\* one element of the list comprehension
NormalizeExt(ext) ==
    IF Strip(ext) # <<>> /\ Head(Strip(ext)) = "."
    THEN Lower(Strip(ext))
    ELSE <<".">> \o Lower(Strip(ext))

\* include_extensions as main() computes it (<<>> is None)
IncludeExtensions(extensions) ==
    IF extensions = <<>> THEN <<>>
    ELSE LET parts == SplitComma(extensions, <<>>)
         IN  [i \in 1..Len(parts) |-> NormalizeExt(parts[i])]

(***************************************************************************)
(* FileChangeHandler                                                       *)
(***************************************************************************)
\* datetime.now().strftime('%Y-%m-%d %H:%M:%S'): one sample instant
Now == "2025-01-01 12:00:00"

\* mutant: the directory flag is read inverted
should_process_event_inverted_flag(self, event) ==
    IF ~self.exclude_directories /\ event.is_directory THEN FALSE
    ELSE IF self.include_extensions # <<>> /\ ~event.is_directory
            /\ ~(\E i \in 1..Len(self.include_extensions) :
                    self.include_extensions[i] = Lower(SplitextExt(event.src_path)))
         THEN FALSE
    ELSE TRUE

\* mutant: the extension is compared without ext.lower()
should_process_event_no_lower(self, event) ==
    IF self.exclude_directories /\ event.is_directory THEN FALSE
    ELSE IF self.include_extensions # <<>> /\ ~event.is_directory
            /\ ~(\E i \in 1..Len(self.include_extensions) :
                    self.include_extensions[i] = SplitextExt(event.src_path))
         THEN FALSE
    ELSE TRUE

should_process_event(self, event) ==
    IF self.exclude_directories /\ event.is_directory THEN FALSE
    ELSE IF self.include_extensions # <<>> /\ ~event.is_directory
            /\ ~(\E i \in 1..Len(self.include_extensions) :
                    self.include_extensions[i] = Lower(SplitextExt(event.src_path)))
         THEN FALSE
    ELSE TRUE

\* round(num / den) to an integer, ties to even, as '%.2f' does on the
\* exactly representable quotient
RoundHalfEven(num, den) ==
    LET q == num \div den
        r == num % den
    IN  IF 2 * r < den THEN q
        ELSE IF 2 * r > den THEN q + 1
        ELSE IF q % 2 = 0 THEN q ELSE q + 1

TwoDigits(n) == IF n < 10 THEN "0" \o ToString(n) ELSE ToString(n)

\* f"{size_bytes:.2f} {unit}" where size_bytes is n / den
FormatSize(n, den, unit) ==
    LET h == (n \div den) * 100 + RoundHalfEven((n % den) * 100, den)
    IN  ToString(h \div 100) \o "." \o TwoDigits(h % 100) \o " " \o unit

Units == <<"B", "KB", "MB", "GB", "TB">>

\* the for loop of _get_file_size
RECURSIVE SizeLoop(_, _, _)
SizeLoop(n, den, u) ==
    IF n \div den < 1024 \/ Units[u] = "TB"
    THEN FormatSize(n, den, Units[u])
    ELSE SizeLoop(n, den * 1024, u + 1)

\* mutant: no try/except around the size lookup
_get_file_size_uncaught(fs) ==
    IF fs.st = "error"
    THEN [exc |-> TRUE, val |-> "", log |-> <<>>]
    ELSE IF fs.st = "file"
    THEN [exc |-> FALSE, val |-> SizeLoop(fs.size, 1, 1), log |-> <<>>]
    ELSE [exc |-> FALSE, val |-> "N/A (directory)", log |-> <<>>]

\* fs is what the filesystem answers for the path: st = "file" with its
\* size, "notfile" (a directory or a vanished path), or "error" (os.path.getsize raises)
_get_file_size(fs) ==
    IF fs.st = "error"
    THEN [exc |-> FALSE, val |-> "Unknown",
          log |-> <<[level |-> "ERROR", msg |-> "Error getting file size: " \o fs.err]>>]
    ELSE IF fs.st = "file"
    THEN [exc |-> FALSE, val |-> SizeLoop(fs.size, 1, 1), log |-> <<>>]
    ELSE [exc |-> FALSE, val |-> "N/A (directory)", log |-> <<>>]

NoneP == [none |-> TRUE]
IntP(n) == [int |-> n]
StrP(s) == [str |-> s]

\* Python truthiness of a priority argument
PriorityTruthy(p) ==
    IF "int" \in DOMAIN p THEN p.int # 0
    ELSE IF "str" \in DOMAIN p THEN p.str # ""
    ELSE FALSE

priority_map ==
    [urgent |-> 5, high |-> 4, default |-> 3, low |-> 2, min |-> 1]

\* the priority entry of the payload (an empty function when left out)
PriorityField(priority) ==
    IF ~PriorityTruthy(priority) THEN <<>>
    ELSE IF "str" \in DOMAIN priority
         THEN IF priority.str \in DOMAIN priority_map
              THEN [priority |-> priority_map[priority.str]]
              ELSE <<>>
         ELSE [priority |-> priority.int]

\* the JSON payload send_notification builds
Payload(self, call) ==
    [topic |-> self.topic, message |-> call.message]
      @@ (IF call.title # "" THEN [title |-> call.title] ELSE <<>>)
      @@ PriorityField(call.priority)
      @@ (IF call.tags # "" THEN [tags |-> <<call.tags>>] ELSE <<>>)
      @@ (IF call.click # "" THEN [click |-> call.click] ELSE <<>>)
      @@ (IF call.attach # "" THEN [attach |-> call.attach] ELSE <<>>)
      @@ (IF call.actions # "" THEN [actions |-> call.actions] ELSE <<>>)

\* net is what requests.post does: returns a response with a status code,
\* or raises (connection error, timeout, DNS failure), or, on the main
\* thread, is cut short by KeyboardInterrupt (net.kbd), which is no
\* Exception and leaves send_notification; the logger.debug of a 200 is
\* below the INFO level the logger is configured with and emits nothing
send_notification(self, call, net) ==
    [exc |-> net.kbd,
     payload |-> Payload(self, call),
     log |-> IF net.kbd THEN <<>>
             ELSE IF net.exc
             THEN <<[level |-> "ERROR", msg |-> "Error sending notification: " \o net.err]>>
             ELSE IF net.status = 200
             THEN <<>>
             ELSE <<[level |-> "ERROR",
                     msg |-> "Failed to send notification: " \o ToString(net.status)]>>]

Call(message, title, priority, tags) ==
    [message |-> message, title |-> title, priority |-> priority, tags |-> tags,
     click |-> "", attach |-> "", actions |-> ""]

StartedCall ==
    Call("Started monitoring folder for changes", "Folder Monitoring Started",
         IntP(3), "rocket")

StoppedCall ==
    Call("Folder monitoring stopped by user", "Monitoring Stopped", IntP(3), "stop_sign")

CreatedCall(event, file_size) ==
    Call("File created: " \o Join(Basename(event.src_path))
           \o "\nLocation: " \o Join(event.src_path)
           \o "\nSize: " \o file_size \o "\nTime: " \o Now,
         "File Created", IntP(3), "file_folder,new")

ModifiedCall(event, file_size) ==
    Call("File modified: " \o Join(Basename(event.src_path))
           \o "\nLocation: " \o Join(event.src_path)
           \o "\nSize: " \o file_size \o "\nTime: " \o Now,
         "File Modified", IntP(2), "pencil")

\* mutant: the deletion is sent with the default priority
DeletedCall_default_priority(event) ==
    Call("File deleted: " \o Join(Basename(event.src_path))
           \o "\nLocation: " \o Join(event.src_path) \o "\nTime: " \o Now,
         "File Deleted", IntP(3), "wastebasket,warning")

DeletedCall(event) ==
    Call("File deleted: " \o Join(Basename(event.src_path))
           \o "\nLocation: " \o Join(event.src_path) \o "\nTime: " \o Now,
         "File Deleted", IntP(4), "wastebasket,warning")

MovedTitle(src_path, dest_path) ==
    IF RsplitHead(src_path) = RsplitHead(dest_path)
    THEN "File Renamed: " \o Join(Basename(src_path)) \o " → "
           \o Join(Basename(dest_path))
    ELSE "File Moved"

MovedCall(event) ==
    Call("File moved:\nFrom: " \o Join(event.src_path)
           \o "\nTo: " \o Join(event.dest_path) \o "\nTime: " \o Now,
         MovedTitle(event.src_path, event.dest_path), IntP(3), "arrow_right")

(***************************************************************************)
(* Inputs                                                                  *)
(***************************************************************************)
Topics == {"alerts", "backup"}

\* --extensions as typed: absent, or "TXT, .pdf"
ExtArgs ==
    { <<>>,
      <<"T","X","T",","," ",".","p","d","f">> }

\* /w/a.TXT and /w/c.md
SamplePaths ==
    { <<"/","w","/","a",".","T","X","T">>,
      <<"/","w","/","c",".","m","d">> }

FileSizes == {1536}

FsOutcomes ==
    { [st |-> "notfile", size |-> 0, err |-> ""],
      [st |-> "error", size |-> 0, err |-> "[Errno 13] Permission denied"] }
    \cup { [st |-> "file", size |-> n, err |-> ""] : n \in FileSizes }

NetOutcomes ==
    { [exc |-> FALSE, kbd |-> FALSE, status |-> 200, err |-> ""],
      [exc |-> FALSE, kbd |-> FALSE, status |-> 500, err |-> ""],
      [exc |-> TRUE, kbd |-> FALSE, status |-> 0, err |-> "Connection refused"] }

\* on the main thread the operator's SIGINT can also arrive during the POST
MainNetOutcomes ==
    NetOutcomes
    \cup { [exc |-> TRUE, kbd |-> TRUE, status |-> 0, err |-> "KeyboardInterrupt"] }

Kinds == {"created", "modified", "deleted", "moved"}

Event(kind, src_path, dest_path, is_directory) ==
    [kind |-> kind, src_path |-> src_path, dest_path |-> dest_path,
     is_directory |-> is_directory]

SampleEvents(kind) ==
    { Event(kind, s, IF kind = "moved" THEN d ELSE <<>>, dir) :
        s \in SamplePaths, d \in IF kind = "moved" THEN SamplePaths ELSE {<<>>},
        dir \in BOOLEAN }

NoHandler ==
    [made |-> FALSE, topic |-> "", include_extensions |-> <<>>,
     exclude_directories |-> TRUE]

NoCall == Call("", "", NoneP, "")
NoEvent == Event("none", <<>>, <<>>, FALSE)
NoPost ==
    [by |-> "none", event |-> NoEvent, call |-> NoCall,
     payload |-> [topic |-> "", message |-> ""]]

(***************************************************************************)
(* Initial state: the process has parsed its arguments                     *)
(***************************************************************************)
Init ==
    /\ pc = "start"
    /\ exitCode = 0
    /\ args \in [path : {"/w"}, path_exists : BOOLEAN, topic : Topics,
                 extensions : ExtArgs, include_directories : BOOLEAN,
                 recursive : {FALSE}]
    /\ handler = NoHandler
    /\ obsThread = "unstarted"
    /\ stopRequested = FALSE
    /\ pending = NoCall
    /\ lastEvent = NoEvent
    /\ lastPost = NoPost
    /\ posts = <<>>
    /\ events = <<>>
    /\ lifecycle = <<>>
    /\ log = <<>>

(***************************************************************************)
(* main thread                                                             *)
(***************************************************************************)
Info(msg) == [level |-> "INFO", msg |-> msg]

\* ', '.join(include_extensions)
RECURSIVE JoinComma(_)
JoinComma(list) ==
    IF list = <<>> THEN ""
    ELSE IF Len(list) = 1 THEN Join(list[1])
    ELSE Join(list[1]) \o ", " \o JoinComma(Tail(list))

\* the logger.info calls that end FileChangeHandler.__init__
StartedRecords(self) ==
    <<Info("Started monitoring. Notifications will be sent to topic: " \o self.topic)>>
    \o (IF self.include_extensions # <<>>
        THEN <<Info("Monitoring only these extensions: "
                      \o JoinComma(self.include_extensions))>>
        ELSE <<>>)

\* logger.info(f"Monitoring folder: {os.path.abspath(args.path)} (recursive: ...)")
MonitoringRecord(a) ==
    Info("Monitoring folder: " \o a.path \o " (recursive: "
           \o (IF a.recursive THEN "True" ELSE "False") \o ")")

\* the process ends while the observer thread, a daemon thread, is running
Killed(thread) == IF thread \in {"idle", "posting"} THEN "killed" ELSE thread

\* one requests.post by the main thread, made through send_notification,
\* followed by the logger calls (more) of the caller; a KeyboardInterrupt
\* leaving send_notification is uncaught in main() and ends the process
MainSend(self, call, by, net, nextPc, more) ==
    LET r == send_notification(self, call, net)
    IN  /\ lastPost' = [by |-> by, event |-> NoEvent, call |-> call,
                        payload |-> r.payload]
        /\ posts' = Append(posts, [by |-> by, topic |-> r.payload.topic, ev |-> 0])
        /\ IF r.exc
           THEN /\ pc' = "exited"
                /\ exitCode' = -2
                /\ lifecycle' = lifecycle \o <<by \o "_notification", "interrupt",
                                                "exit">>
                /\ obsThread' = Killed(obsThread)
                /\ pending' = NoCall
                /\ log' = r.log
           ELSE /\ pc' = nextPc
                /\ exitCode' = exitCode
                /\ lifecycle' = Append(lifecycle, by \o "_notification")
                /\ obsThread' = obsThread
                /\ pending' = pending
                /\ log' = r.log \o more

\* if not os.path.exists(args.path): logger.error(...)
PathMissing ==
    /\ pc = "start"
    /\ ~args.path_exists
    /\ pc' = "missing"
    /\ log' = <<[level |-> "ERROR",
                  msg |-> "The specified path does not exist: " \o args.path]>>
    /\ UNCHANGED <<exitCode, args, handler, obsThread, stopRequested, pending,
                   lastEvent, lastPost, posts, events, lifecycle>>

\* sys.exit(1)
SysExit ==
    /\ pc = "missing"
    /\ pc' = "exited"
    /\ exitCode' = 1
    /\ lifecycle' = Append(lifecycle, "exit")
    /\ log' = <<>>
    /\ UNCHANGED <<args, handler, obsThread, stopRequested, pending, lastEvent,
                   lastPost, posts, events>>

\* include_extensions is computed and FileChangeHandler constructed;
\* __init__ sends the start notification
ConstructHandler(net) ==
    /\ pc = "start"
    /\ args.path_exists
    /\ handler' = [made |-> TRUE, topic |-> args.topic,
                   include_extensions |-> IncludeExtensions(args.extensions),
                   exclude_directories |-> ~args.include_directories]
    /\ MainSend(handler', StartedCall, "start", net, "schedule",
                StartedRecords(handler'))
    /\ UNCHANGED <<args, stopRequested, lastEvent, events>>

\* observer = Observer(); observer.schedule(...); observer.start(): the
\* observer thread runs from here on
StartObserver ==
    /\ pc = "schedule"
    /\ obsThread' = "idle"
    /\ pc' = "started"
    /\ lifecycle' = Append(lifecycle, "observer_start")
    /\ log' = <<>>
    /\ UNCHANGED <<exitCode, args, handler, stopRequested, pending, lastEvent,
                   lastPost, posts, events>>

\* logger.info(f"Monitoring folder: ...")
LogMonitoring ==
    /\ pc = "started"
    /\ pc' = "logged"
    /\ log' = <<MonitoringRecord(args)>>
    /\ UNCHANGED <<exitCode, args, handler, obsThread, stopRequested, pending,
                   lastEvent, lastPost, posts, events, lifecycle>>

\* try: while True: time.sleep(1)
EnterSleepLoop ==
    /\ pc = "logged"
    /\ pc' = "watching"
    /\ log' = <<>>
    /\ UNCHANGED <<exitCode, args, handler, obsThread, stopRequested, pending,
                   lastEvent, lastPost, posts, events, lifecycle>>

\* KeyboardInterrupt raised in the sleep loop, the one place where main()
\* handles it
KeyboardInterrupt ==
    /\ pc = "watching"
    /\ pc' = "interrupted"
    /\ lifecycle' = Append(lifecycle, "interrupt")
    /\ log' = <<Info("Monitoring stopped by user")>>
    /\ UNCHANGED <<exitCode, args, handler, obsThread, stopRequested, pending,
                   lastEvent, lastPost, posts, events>>

\* event_handler.send_notification("Folder monitoring stopped by user", ...)
SendStopped(net) ==
    /\ pc = "interrupted"
    /\ MainSend(handler, StoppedCall, "stop", net, "stop_observer", <<>>)
    /\ UNCHANGED <<args, handler, stopRequested, lastEvent, events>>

\* KeyboardInterrupt raised in the main thread outside the try block (up to
\* the logger.info that precedes it, and at observer.join()) or inside the
\* except block: nothing catches it, and the process ends with the
\* observer thread
UncaughtInterrupt ==
    /\ pc \in {"start", "missing", "schedule", "started", "logged",
               "interrupted", "stop_observer", "join", "joined"}
    /\ pc' = "exited"
    /\ exitCode' = -2
    /\ lifecycle' = lifecycle \o <<"interrupt", "exit">>
    /\ obsThread' = Killed(obsThread)
    /\ pending' = NoCall
    /\ log' = <<>>
    /\ UNCHANGED <<args, handler, stopRequested, lastEvent, lastPost, posts,
                   events>>

\* observer.stop()
ObserverStop ==
    /\ pc = "stop_observer"
    /\ stopRequested' = TRUE
    /\ pc' = "join"
    /\ lifecycle' = Append(lifecycle, "observer_stop")
    /\ log' = <<>>
    /\ UNCHANGED <<exitCode, args, handler, obsThread, pending, lastEvent,
                   lastPost, posts, events>>

\* mutant: join() does not wait for the observer thread
ObserverJoin_no_wait ==
    /\ pc = "join"
    /\ pc' = "joined"
    /\ lifecycle' = Append(lifecycle, "observer_join")
    /\ log' = <<>>
    /\ UNCHANGED <<exitCode, args, handler, obsThread, stopRequested, pending,
                   lastEvent, lastPost, posts, events>>

\* observer.join() returns once the observer thread has ended
ObserverJoin ==
    /\ pc = "join"
    /\ obsThread \in {"terminated", "crashed"}
    /\ pc' = "joined"
    /\ lifecycle' = Append(lifecycle, "observer_join")
    /\ log' = <<>>
    /\ UNCHANGED <<exitCode, args, handler, obsThread, stopRequested, pending,
                   lastEvent, lastPost, posts, events>>

\* main() returns
MainReturn ==
    /\ pc = "joined"
    /\ pc' = "exited"
    /\ exitCode' = 0
    /\ lifecycle' = Append(lifecycle, "exit")
    /\ log' = <<>>
    /\ UNCHANGED <<args, handler, obsThread, stopRequested, pending, lastEvent,
                   lastPost, posts, events>>

(***************************************************************************)
(* observer thread                                                         *)
(***************************************************************************)
\* The watch facility may hand the handler an event whenever its thread is
\* between two events; observer.stop() only sets a flag that the dispatch
\* loop tests between events.
CanDispatch ==
    /\ obsThread = "idle"
    /\ Len(events) < MaxEvents

\* the part of an event callback up to the send_notification call: the
\* filter, then (prep) the size lookup, the log record and the arguments
Dispatch(event, prep) ==
    /\ lastEvent' = event
    /\ IF ~should_process_event(handler, event)
       THEN /\ events' = Append(events, [accepted |-> FALSE, failed |-> FALSE,
                                      done |-> TRUE])
            /\ obsThread' = "idle"
            /\ pending' = NoCall
            /\ log' = <<>>
       ELSE IF prep.exc
       THEN /\ events' = Append(events, [accepted |-> TRUE, failed |-> TRUE,
                                      done |-> FALSE])
            /\ obsThread' = "crashed"
            /\ pending' = NoCall
            /\ log' = prep.log
       ELSE /\ events' = Append(events, [accepted |-> TRUE, failed |-> prep.failed,
                                      done |-> FALSE])
            /\ obsThread' = "posting"
            /\ pending' = prep.call
            /\ log' = prep.log
    /\ UNCHANGED <<pc, exitCode, args, handler, stopRequested, lastPost, posts,
                   lifecycle>>

on_created(event, fs) ==
    /\ CanDispatch
    /\ LET size == _get_file_size(fs)
       IN  Dispatch(event,
             [exc |-> size.exc, failed |-> fs.st = "error",
              call |-> CreatedCall(event, size.val),
              log |-> size.log \o <<Info("Created: " \o Join(event.src_path))>>])

on_modified(event, fs) ==
    /\ CanDispatch
    /\ LET size == _get_file_size(fs)
       IN  Dispatch(event,
             [exc |-> size.exc, failed |-> fs.st = "error",
              call |-> ModifiedCall(event, size.val),
              log |-> size.log \o <<Info("Modified: " \o Join(event.src_path))>>])

on_deleted(event) ==
    /\ CanDispatch
    /\ Dispatch(event,
         [exc |-> FALSE, failed |-> FALSE, call |-> DeletedCall(event),
          log |-> <<Info("Deleted: " \o Join(event.src_path))>>])

on_moved(event) ==
    /\ CanDispatch
    /\ Dispatch(event,
         [exc |-> FALSE, failed |-> FALSE, call |-> MovedCall(event),
          log |-> <<Info("Moved: " \o Join(event.src_path) \o " -> "
                         \o Join(event.dest_path))>>])

\* mutant: a failed POST is sent a second time
HandlerPost_retry(net) ==
    /\ obsThread = "posting"
    /\ LET r == send_notification(handler, pending, net)
           n == Len(events)
           p == [by |-> "file", topic |-> r.payload.topic, ev |-> n]
       IN  /\ lastPost' = [by |-> "file", event |-> lastEvent, call |-> pending,
                           payload |-> r.payload]
           /\ posts' = IF net.exc \/ net.status # 200
                       THEN posts \o <<p, p>> ELSE Append(posts, p)
           /\ log' = r.log
           /\ events' = [events EXCEPT ![n].failed =
                            @ \/ net.exc \/ net.status # 200,
                                        ![n].done = ~r.exc]
           /\ obsThread' = IF r.exc THEN "crashed" ELSE "idle"
    /\ pending' = NoCall
    /\ UNCHANGED <<pc, exitCode, args, handler, stopRequested, lastEvent,
                   lifecycle>>

\* the send_notification call that ends an event callback: requests.post
\* and the handling of its outcome; the callback then returns
HandlerPost(net) ==
    /\ obsThread = "posting"
    /\ LET r == send_notification(handler, pending, net)
           n == Len(events)
       IN  /\ lastPost' = [by |-> "file", event |-> lastEvent, call |-> pending,
                           payload |-> r.payload]
           /\ posts' = Append(posts, [by |-> "file", topic |-> r.payload.topic,
                                      ev |-> n])
           /\ log' = r.log
           /\ events' = [events EXCEPT ![n].failed =
                            @ \/ net.exc \/ net.status # 200,
                                        ![n].done = ~r.exc]
           /\ obsThread' = IF r.exc THEN "crashed" ELSE "idle"
    /\ pending' = NoCall
    /\ UNCHANGED <<pc, exitCode, args, handler, stopRequested, lastEvent,
                   lifecycle>>

\* the dispatch loop sees the stop flag and the thread ends
ObserverThreadExit ==
    /\ obsThread = "idle"
    /\ stopRequested
    /\ obsThread' = "terminated"
    /\ log' = <<>>
    /\ UNCHANGED <<pc, exitCode, args, handler, stopRequested, pending, lastEvent,
                   lastPost, posts, events, lifecycle>>

Next ==
    \/ PathMissing
    \/ SysExit
    \/ \E net \in MainNetOutcomes : ConstructHandler(net)
    \/ StartObserver
    \/ LogMonitoring
    \/ EnterSleepLoop
    \/ KeyboardInterrupt
    \/ \E net \in MainNetOutcomes : SendStopped(net)
    \/ UncaughtInterrupt
    \/ ObserverStop
    \/ ObserverJoin
    \/ MainReturn
    \/ \E e \in SampleEvents("created"), fs \in FsOutcomes : on_created(e, fs)
    \/ \E e \in SampleEvents("modified"), fs \in FsOutcomes : on_modified(e, fs)
    \/ \E e \in SampleEvents("deleted") : on_deleted(e)
    \/ \E e \in SampleEvents("moved") : on_moved(e)
    \/ \E net \in NetOutcomes : HandlerPost(net)
    \/ ObserverThreadExit

Spec == Init /\ [][Next]_vars

(***************************************************************************)
(* Handler-level specification: a constructed, watching handler receives   *)
(* one event whose paths range over every string up to MaxPathLen, or one  *)
(* direct send_notification call with an arbitrary priority argument.      *)
(***************************************************************************)
PathChars == {"/", ".", "a", "B"}
MoveChars == {"/", "a", "b"}

PathsUpTo(chars, n) == UNION { [1..k -> chars] : k \in 1..n }

\* --extensions as typed: absent, "a", or "B, .a"
FnExtArgs ==
    { <<>>,
      <<"a">>,
      <<"B",","," ",".","a">> }

FnFileSizes == {0, 1152, 1536, 1073741824}

FnFsOutcomes ==
    { [st |-> "notfile", size |-> 0, err |-> ""],
      [st |-> "error", size |-> 0, err |-> "[Errno 2] No such file or directory"] }
    \cup { [st |-> "file", size |-> n, err |-> ""] : n \in FnFileSizes }

FnEvents(kind) ==
    { Event(kind, s, <<>>, dir) :
        s \in PathsUpTo(PathChars, MaxPathLen), dir \in BOOLEAN }

FnMoves ==
    { Event("moved", s, d, dir) :
        s \in PathsUpTo(MoveChars, MaxPathLen),
        d \in PathsUpTo(MoveChars, MaxPathLen), dir \in BOOLEAN }

PriorityArgs ==
    { IntP(n) : n \in -1..7 }
    \cup { StrP(s) : s \in {"urgent", "high", "default", "low", "min", "max", ""} }
    \cup { NoneP }

DirectCalls ==
    { Call("msg", t, p, "") : t \in {"", "Title"}, p \in PriorityArgs }

\* the state main() is in once it has entered the sleep loop
InitFn ==
    /\ pc = "watching"
    /\ exitCode = 0
    /\ args \in [path : {"/w"}, path_exists : {TRUE}, topic : {"alerts"},
                 extensions : FnExtArgs, include_directories : BOOLEAN,
                 recursive : {FALSE}]
    /\ handler = [made |-> TRUE, topic |-> args.topic,
                  include_extensions |-> IncludeExtensions(args.extensions),
                  exclude_directories |-> ~args.include_directories]
    /\ obsThread = "idle"
    /\ stopRequested = FALSE
    /\ pending = NoCall
    /\ lastEvent = NoEvent
    /\ lastPost = [by |-> "start", event |-> NoEvent, call |-> StartedCall,
                   payload |-> Payload(handler, StartedCall)]
    /\ posts = <<[by |-> "start", topic |-> args.topic, ev |-> 0]>>
    /\ events = <<>>
    /\ lifecycle = <<"start_notification", "observer_start">>
    /\ log = <<>>

\* handler.send_notification(...) called directly with arbitrary arguments
DirectSend(call, net) ==
    /\ pc = "watching"
    /\ obsThread = "idle"
    /\ LET r == send_notification(handler, call, net)
       IN  /\ lastPost' = [by |-> "direct", event |-> NoEvent, call |-> call,
                           payload |-> r.payload]
           /\ posts' = Append(posts, [by |-> "direct", topic |-> r.payload.topic,
                                      ev |-> 0])
           /\ log' = r.log
           /\ pc' = IF r.exc THEN "exited" ELSE pc
           /\ exitCode' = IF r.exc THEN -2 ELSE exitCode
    /\ UNCHANGED <<args, handler, obsThread, stopRequested, pending, lastEvent,
                   events, lifecycle>>

\* one event, or one direct call, per handler
Fresh == Len(posts) = 1 /\ events = <<>>

NextFn ==
    \/ Fresh /\ \E e \in FnEvents("created"), fs \in FnFsOutcomes : on_created(e, fs)
    \/ Fresh /\ \E e \in FnEvents("modified"), fs \in FnFsOutcomes : on_modified(e, fs)
    \/ Fresh /\ \E e \in FnEvents("deleted") : on_deleted(e)
    \/ Fresh /\ \E e \in FnMoves : on_moved(e)
    \/ \E net \in NetOutcomes : HandlerPost(net)
    \/ Fresh /\ \E call \in DirectCalls, net \in NetOutcomes : DirectSend(call, net)

SpecFn == InitFn /\ [][NextFn]_vars

(***************************************************************************)
(* Properties                                                              *)
(***************************************************************************)
\* event i has had a requests.post made for it
HasPost(i) == \E j \in 1..Len(posts) : posts[j].by = "file" /\ posts[j].ev = i

\* the number of requests.post made for event i
FilePostsFor(i) ==
    Cardinality({ j \in 1..Len(posts) : posts[j].by = "file" /\ posts[j].ev = i })

\* the callback of event i has returned
Handled(i) == events[i].done

PostedBy(by) == \E j \in 1..Len(posts) : posts[j].by = by

InList(x, list) == \E i \in 1..Len(list) : list[i] = x

IsPrefix(s, t) == Len(s) <= Len(t) /\ SubSeq(t, 1, Len(s)) = s

\* C1: no failure of the size lookup or of the POST escapes an event
\* callback: the observer thread is never ended by an exception, and every
\* event delivered after a failed one is still decided by the filter and,
\* if accepted, has its own POST made.
C1_FailuresContained ==
    /\ obsThread # "crashed"
    /\ \A i \in 1..Len(events) : \A j \in (i+1)..Len(events) :
          events[i].failed /\ Handled(j) => (HasPost(j) <=> events[j].accepted)

\* the second event is accepted and posted after the first one failed
C1_Witness ==
    /\ Len(events) = 2
    /\ events[1].failed
    /\ events[2].accepted
    /\ obsThread = "idle"
    /\ HasPost(2)

\* C2: with exclude_directories set, should_process_event rejects every
\* directory event, and no POST is ever made for one.
C2_DirectoriesExcluded ==
    handler.made /\ handler.exclude_directories =>
        /\ lastEvent.kind # "none" /\ lastEvent.is_directory =>
              /\ ~should_process_event(handler, lastEvent)
              /\ ~events[Len(events)].accepted
              /\ ~HasPost(Len(events))
              /\ pending = NoCall
        /\ lastPost.by = "file" => ~lastPost.event.is_directory

\* a directory move was delivered while an extension allow-list is set
C2_Witness ==
    /\ handler.exclude_directories
    /\ handler.include_extensions # <<>>
    /\ lastEvent.kind = "moved"
    /\ lastEvent.is_directory
    /\ obsThread = "idle"

\* the extension as the claim words it: the base name from its last dot on
ClaimedExt(p) ==
    LET b == Basename(p)
    IN  IF \E k \in 1..Len(b) : b[k] = "."
        THEN SubSeq(b, CHOOSE k \in 1..Len(b) :
                          b[k] = "." /\ \A m \in (k+1)..Len(b) : b[m] # ".",
                    Len(b))
        ELSE <<>>

\* the same, except that the dots a base name begins with do not start an
\* extension
AmendedExt(p) ==
    LET b == Basename(p)
    IN  IF \E k \in 1..Len(b) : b[k] = "." /\ \E m \in 1..(k-1) : b[m] # "."
        THEN ClaimedExt(p)
        ELSE <<>>

\* C3 as claimed: with an allow-list, a file event is accepted iff the
\* lowercase substring from the last dot of its base name is in the list;
\* a directory event is rejected iff directories are excluded.
C3_Original ==
    events # <<>> =>
        LET accepted == events[Len(events)].accepted
        IN  /\ handler.include_extensions # <<>> /\ ~lastEvent.is_directory =>
                 (accepted <=>
                    InList(Lower(ClaimedExt(lastEvent.src_path)),
                           handler.include_extensions))
            /\ lastEvent.is_directory =>
                 (accepted <=> ~handler.exclude_directories)

\* C3 amended: the extension is the one os.path.splitext gives, which is
\* empty when only dots precede the last dot of the base name.
C3_Amended ==
    events # <<>> =>
        LET accepted == events[Len(events)].accepted
        IN  /\ handler.include_extensions # <<>> /\ ~lastEvent.is_directory =>
                 (accepted <=>
                    InList(Lower(AmendedExt(lastEvent.src_path)),
                           handler.include_extensions))
            /\ lastEvent.is_directory =>
                 (accepted <=> ~handler.exclude_directories)

\* the file ".a" was rejected although ".a" is in the allow-list
C3_Witness ==
    /\ events # <<>>
    /\ lastEvent.src_path = <<".", "a">>
    /\ ~lastEvent.is_directory
    /\ InList(<<".", "a">>, handler.include_extensions)
    /\ ~events[Len(events)].accepted

\* C4: each accepted event has exactly one POST made for it once its
\* callback has returned, each rejected event none, and every payload
\* carries the topic given at startup.
C4_OnePostPerAcceptedEvent ==
    /\ \A i \in 1..Len(events) :
          FilePostsFor(i) = IF events[i].accepted /\ Handled(i) THEN 1 ELSE 0
    /\ \A j \in 1..Len(posts) : posts[j].topic = args.topic
    /\ lastPost.by # "none" => lastPost.payload.topic = args.topic

\* a run with an accepted and a rejected event has ended
C4_Witness ==
    /\ pc = "exited"
    /\ Len(events) = 2
    /\ events[1].accepted
    /\ events[1].failed
    /\ ~events[2].accepted
    /\ PostedBy("stop")

\* C5 as claimed: with a missing root path the process exits with status
\* 1; the observer is never started and nothing is ever posted.
C5_MissingPathIsFatal ==
    ~args.path_exists =>
        /\ pc \in {"start", "missing", "exited"}
        /\ pc = "exited" => exitCode = 1
        /\ ~handler.made
        /\ obsThread = "unstarted"
        /\ posts = <<>>
        /\ lastPost.by = "none"

FullLifecycle ==
    <<"start_notification", "observer_start", "interrupt", "stop_notification",
      "observer_stop", "observer_join", "exit">>

\* C6 as claimed: when the root path exists the lifecycle steps are taken
\* in the order start notification, observer start, (interruption,) stop
\* notification, observer stop, observer join, exit.
C6_LifecycleOrder ==
    args.path_exists =>
        /\ IsPrefix(lifecycle, FullLifecycle)
        /\ pc = "exited" => lifecycle = FullLifecycle /\ exitCode = 0
        /\ obsThread # "unstarted" => PostedBy("start")
        /\ stopRequested => PostedBy("stop")
        /\ pc \in {"joined", "exited"} =>
              stopRequested /\ obsThread = "terminated"

\* C7: the title and priority of a payload depend on the kind of event
\* alone.
C7_TitleAndPriorityByKind ==
    LET pl == lastPost.payload
        Has(title, priority) ==
            /\ "title" \in DOMAIN pl /\ pl.title = title
            /\ "priority" \in DOMAIN pl /\ pl.priority = priority
    IN  /\ lastPost.by = "file" /\ lastPost.event.kind = "created" =>
              Has("File Created", 3)
        /\ lastPost.by = "file" /\ lastPost.event.kind = "modified" =>
              Has("File Modified", 2)
        /\ lastPost.by = "file" /\ lastPost.event.kind = "deleted" =>
              Has("File Deleted", 4)
        /\ lastPost.by = "file" /\ lastPost.event.kind = "moved" =>
              "priority" \in DOMAIN pl /\ pl.priority = 3
        /\ lastPost.by = "start" => Has("Folder Monitoring Started", 3)
        /\ lastPost.by = "stop" => Has("Monitoring Stopped", 3)

\* the notification of a deletion has been posted
C7_Witness ==
    /\ lastPost.by = "file"
    /\ lastPost.event.kind = "deleted"
    /\ lastPost.event.is_directory
    /\ lastPost.payload.priority = 4

\* os.path.dirname(p)
Dirname(p) ==
    LET head == SubSeq(p, 1, RFind(p, "/"))
    IN  IF head # <<>> /\ \E i \in 1..Len(head) : head[i] # "/"
        THEN RStripSlash(head)
        ELSE head

\* C8 as claimed: the title of a move is "File Renamed: src -> dest"
\* exactly when source and destination have the same parent directory,
\* and "File Moved" otherwise.
C8_RenamedIffSameParent ==
    lastPost.by = "file" /\ lastPost.event.kind = "moved" =>
        LET src == lastPost.event.src_path
            dest == lastPost.event.dest_path
            renamed == "File Renamed: " \o Join(Basename(src)) \o " → "
                         \o Join(Basename(dest))
        IN  IF Dirname(src) = Dirname(dest)
            THEN lastPost.payload.title = renamed
            ELSE lastPost.payload.title = "File Moved"

NamedLevels == {"urgent", "high", "default", "low", "min"}

\* C9 as claimed: whatever the priority argument, the priority of the
\* payload, when present, is an integer in 1..5; a named level is mapped,
\* an integer 1..5 is passed through, an unrecognized string leaves the
\* field out.
C9_PriorityInRange ==
    lastPost.by # "none" =>
        LET p == lastPost.call.priority
            pl == lastPost.payload
            present == "priority" \in DOMAIN pl
        IN  /\ present => pl.priority \in 1..5
            /\ "str" \in DOMAIN p /\ p.str \in NamedLevels =>
                  present /\ pl.priority = priority_map[p.str]
            /\ "str" \in DOMAIN p /\ p.str \notin NamedLevels => ~present
            /\ "int" \in DOMAIN p /\ p.int \in 1..5 =>
                  present /\ pl.priority = p.int

\* C10 as claimed: no file-event POST follows the "Monitoring Stopped" POST.
C10_StoppedIsLast ==
    \A i \in 1..Len(posts) : \A j \in (i+1)..Len(posts) :
        posts[i].by = "stop" => posts[j].by # "file"

\* C10 amended: once observer.join() has returned no POST is made any more
\* (a file-event POST can still follow "Monitoring Stopped" before that).
C10_NoPostAfterJoin ==
    [][(pc \in {"joined", "exited"}) => (posts' = posts)]_vars

\* the observer was joined after a file-event POST that followed the
\* "Monitoring Stopped" POST
C10_Witness ==
    /\ pc = "joined"
    /\ \E i \in 1..Len(posts) : \E j \in (i+1)..Len(posts) :
          posts[i].by = "stop" /\ posts[j].by = "file"

====
